---- MODULE Spec2Model ----
(***************************************************************************)
(* Model of the simulation backend (src/backend): the in-memory job store, *)
(* the run_simulation orchestrator with its concurrent agent fan-out, the  *)
(* per-agent runner with its fallback, the aggregator and the HTTP         *)
(* handlers that create jobs and read their status and result.             *)
(*                                                                         *)
(* The program runs on one asyncio event loop: a coroutine runs alone from *)
(* one suspension point (await) to the next.  cur names the orchestrator   *)
(* that holds the loop (0: none, the loop is free to run any ready         *)
(* callback or request handler).  Every statement of run_simulation that   *)
(* writes a job field is one action.                                       *)
(*                                                                         *)
(* Numbers with one decimal (sentiment_score, final_score) are kept in     *)
(* tenths.  Wall-clock fields (created_at, started_at, run_ms) are left    *)
(* out: no operation reads them back.                                      *)
(***************************************************************************)
EXTENDS Integers, Sequences, FiniteSets, TLC

\* ------------------------------------------------------------- bounds
MaxJobs == 2
NumArchetypes == 2
MaxReactions == 3
MaxCalls == 3

\* ------------------------------------------------------ configuration
ALLOWED_MODELS ==
  << "amazon/nova-micro-v1", "amazon/nova-lite-v1", "anthropic/claude-3-haiku",
     "anthropic/claude-3.5-sonnet", "gemini-2.0-flash-lite-001", "gemini-2.0-flash",
     "meta/llama-3.1-8b-instruct", "mistral/mistral-small-latest" >>

\* ALPHA = 0.7, in tenths
ALPHA == 7

\* weight is in tenths (1.0 for every archetype)
AllArchetypes ==
  << [id |-> "student_renter",         display_name |-> "Marcus Thompson",  weight |-> 10],
     [id |-> "nearby_homeowner",       display_name |-> "Patricia Chen",    weight |-> 10],
     [id |-> "environmental_advocate", display_name |-> "Sarah Greenfield", weight |-> 10],
     [id |-> "small_business_owner",   display_name |-> "David Kowalski",   weight |-> 10],
     [id |-> "city_planner",           display_name |-> "James Rivera",     weight |-> 10],
     [id |-> "accessibility_advocate", display_name |-> "Amara Okafor",     weight |-> 10] >>

\* The configured archetypes; the model runs the first NumArchetypes of them.
ARCHETYPES == SubSeq(AllArchetypes, 1, NumArchetypes)

ArchIdx == 1..Len(ARCHETYPES)

\* ------------------------------------------------- JSON values (Python)
\* A parsed JSON value is a record [t, v]; a float's v is in tenths.
JNull == [t |-> "null", v |-> 0]
JBool(b) == [t |-> "bool", v |-> b]
JInt(n) == [t |-> "int", v |-> n]
JFloat(tenths) == [t |-> "float", v |-> tenths]
JStr(s) == [t |-> "str", v |-> s]
JList(s) == [t |-> "list", v |-> s]
JDict(f) == [t |-> "dict", v |-> f]

\* Python truthiness of a JSON value
Truthy(x) ==
  CASE x.t = "null" -> FALSE
    [] x.t = "bool" -> x.v
    [] x.t = "int" -> x.v # 0
    [] x.t = "float" -> x.v # 0
    [] x.t = "str" -> x.v # ""
    [] x.t = "list" -> Len(x.v) > 0
    [] x.t = "dict" -> DOMAIN x.v # {}

\* dict.get(key, default) on the mapping of a JSON object
Get(d, key, default) == IF key \in DOMAIN d THEN d[key] ELSE default

Returned(val) == [kind |-> "return", val |-> val]
Raised(exc) == [kind |-> "raise", exc |-> exc]

\* str.lower() on the stance texts the service is modelled to send
Lower(s) ==
  CASE s = "SUPPORT" -> "support"
    [] s = "Support" -> "support"
    [] s = "Oppose" -> "oppose"
    [] s = "NEUTRAL" -> "neutral"
    [] s = "WOW" -> "wow"
    [] s = "None" -> "none"
    [] OTHER -> s

\* str(x) of a JSON value (the scalars the service is modelled to send)
PyStr(x) ==
  CASE x.t = "str" -> x.v
    [] x.t = "null" -> "None"
    [] x.t = "bool" -> IF x.v THEN "True" ELSE "False"
    [] x.t = "int" /\ x.v = 0 -> "0"
    [] x.t = "int" /\ x.v = 1 -> "1"
    [] x.t = "int" /\ x.v = 7 -> "7"
    [] OTHER -> "<repr>"

\* ------------------------------------------------------ agent reactions
AllowedStances == {"support", "neutral", "oppose"}

\* The AgentReaction schema: score is an integer with ge=0, le=100.
AgentReaction(agent_id, display_name, stance, score, concerns, why, wcmi, amendments, citations) ==
  [agent_id |-> agent_id, display_name |-> display_name, stance |-> stance,
   score |-> score, concerns |-> concerns, why |-> why,
   would_change_mind_if |-> wcmi, proposed_amendments |-> amendments,
   driver_citations |-> citations]

\* _str_list: a list becomes the list of its elements' str(), anything else []
_str_list(val) ==
  IF val.t = "list" THEN [i \in 1..Len(val.v) |-> PyStr(val.v[i])] ELSE <<>>

\* DriverCitation(...) validates: value must be a number or a string
CitationValueOk(x) == x.t \in {"int", "float", "str"}

\* One pass of the citation loop: an entry that is no object (c.get raises) or whose
\* value fails validation is skipped by the inner try/except.
RECURSIVE CitationLoop(_)
CitationLoop(entries) ==
  IF entries = <<>> THEN <<>>
  ELSE LET c == Head(entries)
           rest == CitationLoop(Tail(entries))
       IN IF c.t = "dict" /\ CitationValueOk(Get(c.v, "value", JInt(0)))
          THEN << [driver |-> PyStr(Get(c.v, "driver", JStr(""))),
                   value |-> Get(c.v, "value", JInt(0)),
                   effect |-> PyStr(Get(c.v, "effect", JStr("neutral")))] >> \o rest
          ELSE rest

\* `for c in raw.get("driver_citations", [])`: a list is iterated; an object or a
\* string is iterated too (keys, characters: every entry is skipped); any other
\* value is not iterable and the for statement raises TypeError.
ParseCitations(raw) ==
  LET val == Get(raw, "driver_citations", JList(<<>>))
  IN CASE val.t = "list" -> Returned(CitationLoop(val.v))
       [] val.t \in {"dict", "str"} -> Returned(<<>>)
       [] OTHER -> Raised("TypeError")

\* int(x): truncation toward zero for a float, parsing for a numeric string
PyInt(x) ==
  CASE x.t = "int" -> Returned(x.v)
    [] x.t = "bool" -> Returned(IF x.v THEN 1 ELSE 0)
    [] x.t = "float" -> Returned(IF x.v >= 0 THEN x.v \div 10 ELSE -((-x.v) \div 10))
    [] x.t = "str" -> IF x.v = "85" THEN Returned(85) ELSE Raised("ValueError")
    [] OTHER -> Raised("TypeError")

Max(a, b) == IF a >= b THEN a ELSE b
Min(a, b) == IF a <= b THEN a ELSE b

\* max(0, min(100, n))
ClampScore(n) == Max(0, Min(100, n))

\* str(raw.get("stance", "neutral")).lower(), neutral unless one of the three
NormaliseStance(raw) ==
  LET s == Lower(PyStr(Get(raw, "stance", JStr("neutral"))))
  IN IF s \in AllowedStances THEN s ELSE "neutral"

ParseErrorReaction(archetype_id, display_name) ==
  AgentReaction(archetype_id, display_name, "neutral", 50,
                << "Agent response could not be parsed." >>,
                << "Response was not valid JSON." >>, <<>>, <<>>, <<>>)

\* _parse_reaction: the value returned or the exception raised.  raw is what
\* one_shot returned: any JSON value; .get on one that is no object raises.
_parse_reaction(archetype_id, display_name, raw) ==
  IF raw.t # "dict" THEN Raised("AttributeError")
  ELSE IF Truthy(Get(raw.v, "_parse_error", JNull))
  THEN Returned(ParseErrorReaction(archetype_id, display_name))
  ELSE
    LET cits == ParseCitations(raw.v)
        score == PyInt(Get(raw.v, "score", JInt(50)))
        aid == Get(raw.v, "agent_id", JStr(archetype_id))
        dname == Get(raw.v, "display_name", JStr(display_name))
    IN IF cits.kind = "raise" THEN cits
       ELSE IF score.kind = "raise" THEN score
       ELSE IF aid.t # "str" \/ dname.t # "str" THEN Raised("ValidationError")
       ELSE Returned(AgentReaction(
              aid.v, dname.v, NormaliseStance(raw.v), ClampScore(score.val),
              _str_list(Get(raw.v, "concerns", JNull)),
              _str_list(Get(raw.v, "why", JNull)),
              _str_list(Get(raw.v, "would_change_mind_if", JNull)),
              _str_list(Get(raw.v, "proposed_amendments", JNull)),
              cits.val))

\* f"Agent timed out or failed: {type(exc).__name__}"
FailureConcern(exc) ==
  CASE exc = "TimeoutError" -> "Agent timed out or failed: TimeoutError"
    [] exc = "RuntimeError" -> "Agent timed out or failed: RuntimeError"
    [] exc = "ConnectError" -> "Agent timed out or failed: ConnectError"
    [] exc = "AttributeError" -> "Agent timed out or failed: AttributeError"
    [] exc = "TypeError" -> "Agent timed out or failed: TypeError"
    [] exc = "ValueError" -> "Agent timed out or failed: ValueError"
    [] exc = "ValidationError" -> "Agent timed out or failed: ValidationError"

FailureReaction(archetype_id, display_name, exc) ==
  AgentReaction(archetype_id, display_name, "neutral", 50,
                << FailureConcern(exc) >>,
                << "Could not generate a reaction in time." >>, <<>>, <<>>, <<>>)

\* The except clause of _run_single_agent propagates the exception.
RunSingleAgentNoFallback(archetype_id, display_name, outcome) ==
  IF outcome.kind = "raise" THEN outcome
  ELSE _parse_reaction(archetype_id, display_name, outcome.val)

\* _run_single_agent: outcome is how the awaited wait_for(one_shot(...)) ended,
\* Raised(exc) (timeout, transport or remote error) or Returned(parsed JSON).
_run_single_agent(archetype_id, display_name, outcome) ==
  IF outcome.kind = "raise"
  THEN Returned(FailureReaction(archetype_id, display_name, outcome.exc))
  ELSE LET parsed == _parse_reaction(archetype_id, display_name, outcome.val)
       IN IF parsed.kind = "raise"
          THEN Returned(FailureReaction(archetype_id, display_name, parsed.exc))
          ELSE parsed

\* --------------------------------------------------------- aggregation
\* round(num/den, 1) in tenths, for num >= 0 and den > 0.  Python rounds the
\* double to the nearest tenth, an exact tie to the even one; for den <= 8 the
\* ties of num/den (x.25, x.75) are exact doubles.
RoundTenths(num, den) ==
  LET q == (num * 10) \div den
      r == (num * 10) % den
  IN IF 2 * r > den \/ (2 * r = den /\ q % 2 = 1) THEN q + 1 ELSE q

\* The pairs <<deterministic_acceptance, sentiment in tenths>> at which the exact
\* blend lies halfway between two tenths and the double computed by
\* ALPHA * d + (1 - ALPHA) * s falls below the tie (IEEE-754 evaluation of the
\* expression for d in {0, 55, 80}); at every other tie it falls above.
BlendTieDown ==
  { <<55, 5>>, <<55, 25>>, <<55, 35>>, <<55, 55>>, <<55, 85>>, <<55, 105>>, <<55, 125>>,
    <<55, 135>>, <<55, 155>>, <<55, 185>>, <<55, 205>>, <<55, 225>>, <<55, 235>>,
    <<55, 255>>, <<55, 285>>, <<55, 325>>, <<55, 335>>, <<55, 425>>, <<55, 525>>,
    <<55, 535>>, <<55, 625>>, <<55, 725>>, <<55, 825>>, <<55, 925>>, <<80, 5>>,
    <<80, 35>>, <<80, 55>>, <<80, 75>>, <<80, 85>>, <<80, 105>>, <<80, 135>>, <<80, 155>>,
    <<80, 175>>, <<80, 185>>, <<80, 205>>, <<80, 235>>, <<80, 255>>, <<80, 275>>,
    <<80, 285>>, <<80, 295>>, <<80, 335>>, <<80, 345>>, <<80, 375>>, <<80, 385>>,
    <<80, 395>>, <<80, 435>>, <<80, 445>>, <<80, 475>>, <<80, 485>>, <<80, 495>>,
    <<80, 535>>, <<80, 545>>, <<80, 575>>, <<80, 595>>, <<80, 645>>, <<80, 675>>,
    <<80, 695>>, <<80, 775>>, <<80, 875>>, <<80, 975>> }

\* The two coefficients change places: ALPHA weighs the sentiment.
BlendSwapped(d, sentiment) ==
  LET exact == (10 - ALPHA) * 10 * d + ALPHA * sentiment
      q == exact \div 10
      r == exact % 10
  IN IF r > 5 \/ (r = 5 /\ q % 2 = 1) THEN q + 1 ELSE q

\* round(ALPHA * d + (1 - ALPHA) * sentiment, 1) in tenths; d is an integer,
\* sentiment is in tenths, so the exact blend is (ALPHA*10*d + (10-ALPHA)*s) / 100.
Blend(d, sentiment) ==
  LET exact == ALPHA * 10 * d + (10 - ALPHA) * sentiment
      q == exact \div 10
      r == exact % 10
  IN IF r > 5 \/ (r = 5 /\ <<d, sentiment>> \notin BlendTieDown) THEN q + 1 ELSE q

\* The weight field of the configured archetypes, in tenths: the value the
\* archetype table gives it (1.0 as shipped; the field exists to be configured)
VARIABLE archWeights

\* The weight field is never read: every reaction weighs 1.0.
ArchetypeWeightIgnored(agent_id) == 10

\* next((a for a in ARCHETYPES if a.id == r.agent_id), None); arch.weight, or
\* 1.0 if None
ArchetypeWeight(agent_id) ==
  IF \E i \in ArchIdx : ARCHETYPES[i].id = agent_id
  THEN archWeights[CHOOSE i \in ArchIdx :
                     /\ ARCHETYPES[i].id = agent_id
                     /\ \A k \in 1..(i - 1) : ARCHETYPES[k].id # agent_id]
  ELSE 10

\* The loop body assigns the product instead of adding it.
AccumulateOverwrite(acc, r) ==
  [weighted_sum |-> r.score * ArchetypeWeight(r.agent_id),
   total_weight |-> acc.total_weight + ArchetypeWeight(r.agent_id)]

\* The loop body: weighted_sum += r.score * w; total_weight += w
Accumulate(acc, r) ==
  [weighted_sum |-> acc.weighted_sum + r.score * ArchetypeWeight(r.agent_id),
   total_weight |-> acc.total_weight + ArchetypeWeight(r.agent_id)]

\* The for loop over the reactions, in list order
RECURSIVE WeightLoop(_, _)
WeightLoop(acc, reactions) ==
  IF reactions = <<>> THEN acc
  ELSE WeightLoop(Accumulate(acc, Head(reactions)), Tail(reactions))

\* sorted(reactions, key=score)[0]: the first reaction with the lowest score
Lowest(reactions) ==
  reactions[CHOOSE i \in 1..Len(reactions) :
              /\ \A k \in 1..Len(reactions) : reactions[i].score <= reactions[k].score
              /\ \A k \in 1..(i - 1) : reactions[k].score > reactions[i].score]

\* sorted(reactions, key=score)[-1]: the sort is stable, the last reaction with
\* the highest score
Highest(reactions) ==
  reactions[CHOOSE i \in 1..Len(reactions) :
              /\ \A k \in 1..Len(reactions) : reactions[i].score >= reactions[k].score
              /\ \A k \in (i + 1)..Len(reactions) : reactions[k].score < reactions[i].score]

\* f"{x:.0f}" of a value in tenths: the nearest integer, a tie (x.5, an exact
\* double) to the even one
Fmt0(tenths) ==
  LET q == tenths \div 10
      r == tenths % 10
  IN IF r > 5 \/ (r = 5 /\ q % 2 = 1) THEN q + 1 ELSE q

\* The default sentiment is blended into the score of an empty list as well.
NoReactionsBlended(deterministic_acceptance) ==
  [sentiment_score |-> 500,
   final_score |-> Blend(deterministic_acceptance, 500),
   notes |-> << << "No agent reactions available." >> >>]

\* `if not reactions: return AggregateResult(sentiment_score=50,
\* final_score=deterministic_acceptance, notes=[...])`
NoReactions(deterministic_acceptance) ==
  [sentiment_score |-> 500,
   final_score |-> deterministic_acceptance * 10,
   notes |-> << << "No agent reactions available." >> >>]

\* _aggregate: sentiment_score and final_score in tenths
_aggregate(reactions, deterministic_acceptance) ==
  IF reactions = <<>>
  THEN NoReactions(deterministic_acceptance)
  ELSE
    LET acc == WeightLoop([weighted_sum |-> 0, total_weight |-> 0], reactions)
        sentiment == IF acc.total_weight # 0
                     THEN RoundTenths(acc.weighted_sum, acc.total_weight)
                     ELSE 500
        final == Blend(deterministic_acceptance, sentiment)
    IN [sentiment_score |-> sentiment,
        final_score |-> final,
        notes |-> << << "Sentiment score", Fmt0(sentiment), Len(reactions) >>,
                     << "Blended", ALPHA * 10, deterministic_acceptance,
                        (10 - ALPHA) * 10, Fmt0(sentiment), Fmt0(final) >>,
                     << "Most critical", Lowest(reactions).display_name,
                        Lowest(reactions).score >>,
                     << "Most supportive", Highest(reactions).display_name,
                        Highest(reactions).score >> >>]

\* =================================================================
\* The state machine
\* =================================================================
VARIABLES
  _jobs,     \* the job store: job id -> Job record
  tasks,     \* job id -> the run_simulation task of the job: its position (pc),
             \* its locals (reactions, aggregate, the exception being handled),
             \* its agent tasks and the as_completed queue of finished ones
  cur,       \* the orchestrator that holds the event loop, 0 when none does
  resp,      \* the HTTP response of the request handler that ran last
  aggIn,     \* the aggregator called on its own: its arguments
  aggOut,    \* ... and what it returned (<<>> before the call)
  runIn,     \* the agent runner called on its own: archetype and service outcome
  runOut,    \* ... and what it returned or raised (<<>> before the call)
  _assistant_cache,  \* backboard._assistant_cache: cache key -> cached value
  calls      \* the calls of get_or_create_assistant: position, key, outcome

vars == << _jobs, tasks, cur, resp, aggIn, aggOut, runIn, runOut, archWeights,
          _assistant_cache, calls >>
pipelineVars == << _jobs, tasks, cur, resp >>
cacheVars == << _assistant_cache, calls >>
unitVars == << aggIn, aggOut, runIn, runOut, archWeights, cacheVars >>

\* ------------------------------------------------------------- inputs
\* model ids a request may carry: one of the allow-list, one outside it
RequestModels == {"amazon/nova-micro-v1", "gpt-4o"}
RequestBuildings == {"library"}
RequestImpacts == {[deterministic_acceptance |-> 55]}

\* str(exc) of an exception escaping the orchestrator's own code
ExceptionTexts == {"", "division by zero"}

\* How one_shot may end when the service answers before the timeout
ServiceOutcomes ==
  << Returned(JDict(("_raw" :> JStr("I cannot answer that.")) @@ ("_parse_error" :> JBool(TRUE)))),
     Returned(JDict([score |-> JInt(80), stance |-> JStr("support"),
                     concerns |-> JList(<< JStr("traffic") >>),
                     why |-> JList(<< JStr("close to transit") >>),
                     driver_citations |-> JList(<< JDict([driver |-> JStr("d_to_park_m"),
                                                          value |-> JInt(120),
                                                          effect |-> JStr("positive")]) >>)])) >>

\* ------------------------------------------------------------ records
None == <<>>
Some(x) == << x >>

NoResponse == [op |-> "none", id |-> 0, code |-> 0, body |-> None]

\* The Job dataclass, with its defaults
Job(id, model_id, building, impacts, agents_total) ==
  [id |-> id, model_id |-> model_id, building |-> building, impacts |-> impacts,
   status |-> "queued", progress |-> 0, phase |-> "", message |-> << "" >>,
   agents_done |-> 0, agents_total |-> agents_total,
   result |-> None, error |-> None]

\* An identifier generator that returns an identifier already in the store
\* whenever there is one
uuid4Repeats ==
  IF DOMAIN _jobs = {} THEN Cardinality(DOMAIN _jobs) + 1
  ELSE CHOOSE j \in DOMAIN _jobs : TRUE

\* str(uuid.uuid4()): an identifier no earlier call returned
uuid4 == Cardinality(DOMAIN _jobs) + 1

JobIds == 1..MaxJobs

Terminal == {"complete", "error"}

\* The event loop is free: no coroutine is between two suspension points.
LoopIdle == cur = 0

At(j, l) == j \in DOMAIN _jobs /\ tasks[j].pc = l /\ cur = j

\* The coroutine returns: its frame, with its locals, is gone.
Returns(task) ==
  [task EXCEPT !.pc = "done", !.reactions = <<>>, !.aggregate = None, !.exc = None]

\* One statement of run_simulation that assigns job fields
Statement(j, from, to, job) ==
  /\ At(j, from)
  /\ _jobs' = [_jobs EXCEPT ![j] = job]
  /\ tasks' = [tasks EXCEPT ![j].pc = to]
  /\ resp' = NoResponse
  /\ UNCHANGED << cur, unitVars >>

\* ------------------------------------------------------ HTTP handlers
\* The allow-list is consulted after the job has been created and scheduled.
RejectModelAfterCreate(model_id) ==
  /\ LoopIdle
  /\ \A i \in 1..Len(ALLOWED_MODELS) : ALLOWED_MODELS[i] # model_id
  /\ Cardinality(DOMAIN _jobs) < MaxJobs
  /\ \E b \in RequestBuildings, i \in RequestImpacts :
       /\ _jobs' = (uuid4 :> Job(uuid4, model_id, b, i, Len(ARCHETYPES))) @@ _jobs
       /\ tasks' = (uuid4 :> [pc |-> "L237", reactions |-> <<>>, aggregate |-> None,
                              exc |-> None,
                              agents |-> [a \in ArchIdx |-> "unstarted"],
                              completed |-> <<>>]) @@ tasks
  /\ resp' = [op |-> "simulate", id |-> 0, code |-> 400, body |-> Some(model_id)]
  /\ UNCHANGED << cur, unitVars >>

\* POST /api/simulate with a model id outside the allow-list: HTTP 400
RejectModel(model_id) ==
  /\ LoopIdle
  /\ \A i \in 1..Len(ALLOWED_MODELS) : ALLOWED_MODELS[i] # model_id
  /\ resp' = [op |-> "simulate", id |-> 0, code |-> 400, body |-> Some(model_id)]
  /\ UNCHANGED << _jobs, tasks, cur, unitVars >>

\* create_job leaves agents_total at the dataclass default.
CreateJobDefaultTotal(model_id, building, impacts) ==
  /\ _jobs' = (uuid4 :> Job(uuid4, model_id, building, impacts, 0)) @@ _jobs
  /\ tasks' = (uuid4 :> [pc |-> "L237", reactions |-> <<>>, aggregate |-> None,
                         exc |-> None,
                         agents |-> [a \in ArchIdx |-> "unstarted"],
                         completed |-> <<>>]) @@ tasks

\* create_job, and the run_simulation task that start_simulation schedules for it
create_job(model_id, building, impacts) ==
  /\ _jobs' = (uuid4 :> Job(uuid4, model_id, building, impacts, Len(ARCHETYPES))) @@ _jobs
  /\ tasks' = (uuid4 :> [pc |-> "L237", reactions |-> <<>>, aggregate |-> None,
                         exc |-> None,
                         agents |-> [a \in ArchIdx |-> "unstarted"],
                         completed |-> <<>>]) @@ tasks

\* POST /api/simulate with an allowed model id: the job is created and its
\* orchestrator scheduled; the response carries the job id
AcceptModel(model_id, building, impacts) ==
  /\ LoopIdle
  /\ \E i \in 1..Len(ALLOWED_MODELS) : ALLOWED_MODELS[i] = model_id
  /\ Cardinality(DOMAIN _jobs) < MaxJobs
  /\ create_job(model_id, building, impacts)
  /\ resp' = [op |-> "simulate", id |-> uuid4, code |-> 200, body |-> None]
  /\ UNCHANGED << cur, unitVars >>

start_simulation(model_id, building, impacts) ==
  \/ RejectModel(model_id)
  \/ AcceptModel(model_id, building, impacts)

\* GET /api/simulate/{job_id}/status
simulation_status(job_id) ==
  /\ LoopIdle
  /\ resp' = IF job_id \notin DOMAIN _jobs
             THEN [op |-> "status", id |-> job_id, code |-> 404, body |-> None]
             ELSE [op |-> "status", id |-> job_id, code |-> 200,
                   body |-> Some([status |-> _jobs[job_id].status,
                                  progress |-> _jobs[job_id].progress,
                                  phase |-> _jobs[job_id].phase,
                                  message |-> _jobs[job_id].message,
                                  partial |-> [agents_done |-> _jobs[job_id].agents_done,
                                               agents_total |-> _jobs[job_id].agents_total]])]
  /\ UNCHANGED << _jobs, tasks, cur, unitVars >>

\* The handler returns job.result without looking at the status.
SimulationResultUnguarded(job_id) ==
  /\ LoopIdle
  /\ resp' = IF job_id \notin DOMAIN _jobs
             THEN [op |-> "result", id |-> job_id, code |-> 404, body |-> None]
             ELSE [op |-> "result", id |-> job_id, code |-> 200,
                   body |-> _jobs[job_id].result]
  /\ UNCHANGED << _jobs, tasks, cur, unitVars >>

\* GET /api/simulate/{job_id}/result: 404 unknown job, 500 with the error text
\* (job.error or "Simulation failed"), 409 not yet complete, else the result
simulation_result(job_id) ==
  /\ LoopIdle
  /\ resp' = IF job_id \notin DOMAIN _jobs
             THEN [op |-> "result", id |-> job_id, code |-> 404, body |-> None]
             ELSE IF _jobs[job_id].status = "error"
             THEN [op |-> "result", id |-> job_id, code |-> 500,
                   body |-> IF _jobs[job_id].error \in {None, Some("")}
                            THEN Some("Simulation failed")
                            ELSE _jobs[job_id].error]
             ELSE IF _jobs[job_id].status # "complete" \/ _jobs[job_id].result = None
             THEN [op |-> "result", id |-> job_id, code |-> 409,
                   body |-> Some("Simulation not yet complete")]
             ELSE [op |-> "result", id |-> job_id, code |-> 200,
                   body |-> _jobs[job_id].result]
  /\ UNCHANGED << _jobs, tasks, cur, unitVars >>

\* ------------------------------------------- run_simulation, by line
\* The task starts (the loop runs it for the first time): job.status = "running"
SetStatusRunning(j) ==
  /\ j \in DOMAIN _jobs /\ tasks[j].pc = "L237" /\ LoopIdle
  /\ _jobs' = [_jobs EXCEPT ![j].status = "running"]
  /\ tasks' = [tasks EXCEPT ![j].pc = "L240"]
  /\ cur' = j
  /\ resp' = NoResponse
  /\ UNCHANGED unitVars

\* An await follows `job.phase = "impacts"`: the orchestrator gives up the loop
\* between that line and the next.
SetPhaseImpactsThenYield(j) ==
  /\ At(j, "L240")
  /\ _jobs' = [_jobs EXCEPT ![j].phase = "impacts"]
  /\ tasks' = [tasks EXCEPT ![j].pc = "L241"]
  /\ cur' = 0
  /\ resp' = NoResponse
  /\ UNCHANGED unitVars

SetPhaseImpacts(j) ==
  Statement(j, "L240", "L241", [_jobs[j] EXCEPT !.phase = "impacts"])

SetProgressImpacts(j) ==
  Statement(j, "L241", "L242", [_jobs[j] EXCEPT !.progress = 15])

SetMessageImpacts(j) ==
  Statement(j, "L242", "L243", [_jobs[j] EXCEPT !.message = << "Processing impact data..." >>])

\* await asyncio.sleep(0.1): the orchestrator gives up the loop ...
Sleep(j) ==
  /\ At(j, "L243")
  /\ tasks' = [tasks EXCEPT ![j].pc = "L243s"]
  /\ cur' = 0
  /\ resp' = NoResponse
  /\ UNCHANGED << _jobs, unitVars >>

\* ... and is resumed by the timer: job.phase = "agents"
SetPhaseAgents(j) ==
  /\ j \in DOMAIN _jobs /\ tasks[j].pc = "L243s" /\ LoopIdle
  /\ _jobs' = [_jobs EXCEPT ![j].phase = "agents"]
  /\ tasks' = [tasks EXCEPT ![j].pc = "L247"]
  /\ cur' = j
  /\ resp' = NoResponse
  /\ UNCHANGED unitVars

SetProgressAgents(j) ==
  Statement(j, "L247", "L248", [_jobs[j] EXCEPT !.progress = 20])

SetMessageAgents(j) ==
  Statement(j, "L248", "L250",
            [_jobs[j] EXCEPT !.message = << "Generating stakeholder reactions..." >>])

\* Lines 250-270: the client, the prompts and one coroutine per archetype are
\* built, reactions = [], and as_completed schedules a task for every coroutine.
FanOut(j) ==
  /\ At(j, "L250")
  /\ tasks' = [tasks EXCEPT ![j].pc = "L271", ![j].reactions = <<>>,
                            ![j].agents = [a \in ArchIdx |-> "pending"]]
  /\ resp' = NoResponse
  /\ UNCHANGED << _jobs, cur, unitVars >>

\* `reaction = await coro` with no finished agent task: the orchestrator suspends
AwaitNextAgent(j) ==
  /\ At(j, "L271")
  /\ tasks[j].completed = <<>>
  /\ cur' = 0
  /\ resp' = NoResponse
  /\ UNCHANGED << _jobs, tasks, unitVars >>

\* _run_single_agent has no except clause: the way the call ended reaches the
\* as_completed queue as it is.
AgentTaskEndsUnprotected(j, a, outcome) ==
  /\ j \in DOMAIN _jobs /\ LoopIdle
  /\ tasks[j].agents[a] = "pending"
  /\ tasks' = [tasks EXCEPT
       ![j].agents[a] = "finished",
       ![j].completed = Append(@, RunSingleAgentNoFallback(ARCHETYPES[a].id,
                                                           ARCHETYPES[a].display_name,
                                                           outcome))]
  /\ resp' = NoResponse
  /\ UNCHANGED << _jobs, cur, unitVars >>

\* An agent task ends while the loop is free: _run_single_agent returns (or
\* raises) for the way its awaited call ended, and the task joins the
\* as_completed queue.
AgentTaskEnds(j, a, outcome) ==
  /\ j \in DOMAIN _jobs /\ LoopIdle
  /\ tasks[j].agents[a] = "pending"
  /\ tasks' = [tasks EXCEPT
       ![j].agents[a] = "finished",
       ![j].completed = Append(@, _run_single_agent(ARCHETYPES[a].id,
                                                    ARCHETYPES[a].display_name,
                                                    outcome))]
  /\ resp' = NoResponse
  /\ UNCHANGED << _jobs, cur, unitVars >>

\* The call is awaited without a timeout: no timer ever ends it.
AgentNeverTimesOut(j, a) ==
  /\ FALSE
  /\ UNCHANGED vars

\* asyncio.wait_for(..., timeout=AGENT_TIMEOUT_S): the timer fires on a call
\* that has not answered and the await raises TimeoutError
AgentTimesOut(j, a) ==
  AgentTaskEnds(j, a, Raised("TimeoutError"))

\* The service answers the call in time, in one of the ways o
AgentCompletes(j, a, o) ==
  AgentTaskEnds(j, a, ServiceOutcomes[o])

\* The agent tasks are awaited together (asyncio.gather): the orchestrator is
\* resumed only when every one of them has finished.
CollectReactionWhenAllDone(j) ==
  /\ j \in DOMAIN _jobs /\ tasks[j].pc = "L271" /\ cur \in {0, j}
  /\ tasks[j].completed # <<>>
  /\ \A a \in ArchIdx : tasks[j].agents[a] = "finished"
  /\ tasks' = [tasks EXCEPT ![j].completed = Tail(@), ![j].pc = "L273",
                            ![j].reactions = Append(@, Head(tasks[j].completed).val)]
  /\ cur' = j
  /\ resp' = NoResponse
  /\ UNCHANGED << _jobs, unitVars >>

\* The reaction of the task that finished is put in front of the list.
CollectReactionPrepends(j) ==
  /\ j \in DOMAIN _jobs /\ tasks[j].pc = "L271" /\ cur \in {0, j}
  /\ tasks[j].completed # <<>>
  /\ tasks' = [tasks EXCEPT ![j].completed = Tail(@), ![j].pc = "L273",
                            ![j].reactions = << Head(tasks[j].completed).val >> \o @]
  /\ cur' = j
  /\ resp' = NoResponse
  /\ UNCHANGED << _jobs, unitVars >>

\* `reaction = await coro; reactions.append(reaction)`: the next finished task
\* in completion order; the orchestrator is resumed if it was suspended, and
\* goes on without suspending if a finished task is already queued.  A task that
\* ended with an exception re-raises it here.
CollectReaction(j) ==
  /\ j \in DOMAIN _jobs /\ tasks[j].pc = "L271" /\ cur \in {0, j}
  /\ tasks[j].completed # <<>>
  /\ tasks' = IF Head(tasks[j].completed).kind = "raise"
              THEN [tasks EXCEPT ![j].completed = Tail(@), ![j].pc = "L307",
                                 ![j].exc = Some(Head(tasks[j].completed).exc)]
              ELSE [tasks EXCEPT ![j].completed = Tail(@), ![j].pc = "L273",
                                 ![j].reactions = Append(@, Head(tasks[j].completed).val)]
  /\ cur' = j
  /\ resp' = NoResponse
  /\ UNCHANGED << _jobs, unitVars >>

SetAgentsDone(j) ==
  Statement(j, "L273", "L275", [_jobs[j] EXCEPT !.agents_done = Len(tasks[j].reactions)])

\* The progress is computed before the reaction is appended to the list.
AgentProgressBeforeAppend(n) == 20 + (70 * (n - 1)) \div Len(ARCHETYPES)

\* 20 + int(70 * len(reactions) / len(ARCHETYPES))
AgentProgress(n) == 20 + (70 * n) \div Len(ARCHETYPES)

SetProgressAgentDone(j) ==
  Statement(j, "L275", "L276",
            [_jobs[j] EXCEPT !.progress = AgentProgress(Len(tasks[j].reactions))])

\* The loop over the finished tasks ends after the first of them.
SetMessageAgentDoneEndsLoop(j) ==
  Statement(j, "L276", "L279",
            [_jobs[j] EXCEPT !.message =
               << "Agent ", Len(tasks[j].reactions), "/", Len(ARCHETYPES), " complete..." >>])

\* f"Agent {len(reactions)}/{len(ARCHETYPES)} complete..."; the loop ends with
\* the last of the tasks
SetMessageAgentDone(j) ==
  Statement(j, "L276",
            IF Len(tasks[j].reactions) = Len(ARCHETYPES) THEN "L279" ELSE "L271",
            [_jobs[j] EXCEPT !.message =
               << "Agent ", Len(tasks[j].reactions), "/", Len(ARCHETYPES), " complete..." >>])

SetPhaseAggregate(j) ==
  Statement(j, "L279", "L280", [_jobs[j] EXCEPT !.phase = "aggregate"])

SetProgressAggregate(j) ==
  Statement(j, "L280", "L281", [_jobs[j] EXCEPT !.progress = 92])

SetMessageAggregate(j) ==
  Statement(j, "L281", "L283", [_jobs[j] EXCEPT !.message = << "Aggregating sentiment..." >>])

\* aggregate = _aggregate(reactions, job.impacts.scores.deterministic_acceptance)
CallAggregate(j) ==
  /\ At(j, "L283")
  /\ tasks' = [tasks EXCEPT ![j].pc = "L289",
                 ![j].aggregate = Some(_aggregate(tasks[j].reactions,
                                                  _jobs[j].impacts.deterministic_acceptance))]
  /\ resp' = NoResponse
  /\ UNCHANGED << _jobs, cur, unitVars >>

\* job.result = SimulateResult(...)
SetResult(j) ==
  Statement(j, "L289", "L300",
            [_jobs[j] EXCEPT !.result =
               Some([impacts |-> _jobs[j].impacts,
                     agents |-> tasks[j].reactions,
                     aggregate |-> tasks[j].aggregate[1],
                     metadata |-> [model_id |-> _jobs[j].model_id]])])

\* An await follows `job.status = "complete"`: the orchestrator gives up the
\* loop between that line and the next.
SetStatusCompleteThenYield(j) ==
  /\ At(j, "L300")
  /\ _jobs' = [_jobs EXCEPT ![j].status = "complete"]
  /\ tasks' = [tasks EXCEPT ![j].pc = "L301"]
  /\ cur' = 0
  /\ resp' = NoResponse
  /\ UNCHANGED unitVars

SetStatusComplete(j) ==
  Statement(j, "L300", "L301", [_jobs[j] EXCEPT !.status = "complete"])

SetProgressComplete(j) ==
  Statement(j, "L301", "L302", [_jobs[j] EXCEPT !.progress = 100])

SetPhaseComplete(j) ==
  Statement(j, "L302", "L303", [_jobs[j] EXCEPT !.phase = "complete"])

\* job.message = "Simulation complete."; the coroutine returns
SetMessageComplete(j) ==
  /\ At(j, "L303")
  /\ _jobs' = [_jobs EXCEPT ![j].message = << "Simulation complete." >>]
  /\ tasks' = [tasks EXCEPT ![j] = Returns(tasks[j])]
  /\ cur' = 0
  /\ resp' = NoResponse
  /\ UNCHANGED unitVars

\* A call that can raise follows the assignment of job.result.
RaiseSitesAfterResult == {"L250", "L283", "L289", "L300"}

\* A call that can raise follows `job.status = "complete"`.
RaiseSitesAfterComplete == {"L250", "L283", "L289", "L301"}

\* The calls of the try block that run the orchestrator's own code: building
\* the client and the prompts, the aggregation, the assembly of the result.
RaiseSites == {"L250", "L283", "L289"}

\* An exception escapes one of those calls: control goes to the except clause,
\* which reads none of the locals of the try block.
RaiseInOrchestrator(j, text) ==
  /\ j \in DOMAIN _jobs /\ cur = j /\ tasks[j].pc \in RaiseSites
  /\ tasks' = [tasks EXCEPT ![j] = [Returns(tasks[j]) EXCEPT !.pc = "L307", !.exc = Some(text)]]
  /\ resp' = NoResponse
  /\ UNCHANGED << _jobs, cur, unitVars >>

\* The except clause also resets the progress display.
SetStatusErrorResetsProgress(j) ==
  Statement(j, "L307", "L308",
            [_jobs[j] EXCEPT !.status = "error", !.progress = 0, !.agents_done = 0])

SetStatusError(j) ==
  Statement(j, "L307", "L308", [_jobs[j] EXCEPT !.status = "error"])

\* job.error = str(exc)
SetError(j) ==
  Statement(j, "L308", "L309", [_jobs[j] EXCEPT !.error = tasks[j].exc])

\* The except clause also marks the phase as failed.
SetMessageErrorSetsPhase(j) ==
  /\ At(j, "L309")
  /\ _jobs' = [_jobs EXCEPT ![j].message = << "Error: ", tasks[j].exc[1] >>,
                            ![j].phase = "error"]
  /\ tasks' = [tasks EXCEPT ![j] = Returns(tasks[j])]
  /\ cur' = 0
  /\ resp' = NoResponse
  /\ UNCHANGED unitVars

\* job.message = f"Error: {exc}"; the coroutine returns
SetMessageError(j) ==
  /\ At(j, "L309")
  /\ _jobs' = [_jobs EXCEPT ![j].message = << "Error: ", tasks[j].exc[1] >>]
  /\ tasks' = [tasks EXCEPT ![j] = Returns(tasks[j])]
  /\ cur' = 0
  /\ resp' = NoResponse
  /\ UNCHANGED unitVars

run_simulation(j) ==
  \/ SetStatusRunning(j) \/ SetPhaseImpacts(j) \/ SetProgressImpacts(j)
  \/ SetMessageImpacts(j) \/ Sleep(j)
  \/ SetPhaseAgents(j) \/ SetProgressAgents(j) \/ SetMessageAgents(j)
  \/ FanOut(j) \/ AwaitNextAgent(j) \/ CollectReaction(j)
  \/ SetAgentsDone(j) \/ SetProgressAgentDone(j) \/ SetMessageAgentDone(j)
  \/ SetPhaseAggregate(j) \/ SetProgressAggregate(j) \/ SetMessageAggregate(j)
  \/ CallAggregate(j) \/ SetResult(j)
  \/ SetStatusComplete(j) \/ SetProgressComplete(j) \/ SetPhaseComplete(j)
  \/ SetMessageComplete(j)
  \/ \E text \in ExceptionTexts : RaiseInOrchestrator(j, text)
  \/ SetStatusError(j) \/ SetError(j) \/ SetMessageError(j)

\* ------------------------------------------------------ specification
\* The weights of the archetype table as shipped
ShippedWeights == [i \in ArchIdx |-> ARCHETYPES[i].weight]

\* No call of get_or_create_assistant has started
NoCall == [pc |-> "idle", cache_key |-> "", result |-> None]

CacheIdle ==
  /\ _assistant_cache = << >>
  /\ calls = [c \in 1..MaxCalls |-> NoCall]

UnitIdle ==
  /\ archWeights = ShippedWeights
  /\ CacheIdle
  /\ aggIn = [reactions |-> <<>>, deterministic_acceptance |-> 0]
  /\ aggOut = None
  /\ runIn = [archetype |-> 1, outcome |-> Raised("TimeoutError")]
  /\ runOut = None

Init ==
  /\ _jobs = << >>
  /\ tasks = << >>
  /\ cur = 0
  /\ resp = NoResponse
  /\ UnitIdle

Next ==
  \/ \E m \in RequestModels, b \in RequestBuildings, i \in RequestImpacts :
       start_simulation(m, b, i)
  \/ \E id \in 1..(MaxJobs + 1) : simulation_status(id)
  \/ \E id \in 1..(MaxJobs + 1) : simulation_result(id)
  \/ \E j \in JobIds : run_simulation(j)
  \/ \E j \in JobIds, a \in ArchIdx : AgentTimesOut(j, a)
  \/ \E j \in JobIds, a \in ArchIdx, o \in 1..Len(ServiceOutcomes) : AgentCompletes(j, a, o)

Spec == Init /\ [][Next]_vars

\* The steps that create and drive jobs: Next without the two read-only
\* handlers, which write no job or task state
DriveNext ==
  \/ \E m \in RequestModels, b \in RequestBuildings, i \in RequestImpacts :
       start_simulation(m, b, i)
  \/ \E j \in JobIds : run_simulation(j)
  \/ \E j \in JobIds, a \in ArchIdx : AgentTimesOut(j, a)
  \/ \E j \in JobIds, a \in ArchIdx, o \in 1..Len(ServiceOutcomes) : AgentCompletes(j, a, o)

\* One turn of the event loop on behalf of the simulations: a ready
\* orchestrator runs its next statement, or the timer of a wait_for fires.
LoopStep ==
  \E j \in JobIds : run_simulation(j) \/ \E a \in ArchIdx : AgentTimesOut(j, a)

\* The event loop keeps running ready callbacks and due timers.  The service
\* owes no answer: the completion of an agent call by the service is not fair.
Fairness == WF_vars(LoopStep)

FairSpec == Init /\ [][DriveNext]_vars /\ Fairness

\* The event loop runs a ready orchestrator; nothing is assumed of the agent
\* calls, which may stay pending (a slow agent, its timeout not yet due).
OrchestratorFairness == WF_vars(\E j \in JobIds : run_simulation(j))

ReportSpec == Init /\ [][DriveNext]_vars /\ OrchestratorFairness

\* Further objects one_shot may return, whatever the service chose to write: one
\* naming another archetype as its agent_id, one without driver citations
OtherAnswers ==
  << Returned(JDict([agent_id |-> JStr("nearby_homeowner"), score |-> JInt(40),
                     stance |-> JStr("oppose"),
                     driver_citations |-> JList(<< JDict([driver |-> JStr("height_m"),
                                                          value |-> JInt(30),
                                                          effect |-> JStr("negative")]) >>)])),
     Returned(JDict([score |-> JInt(70), stance |-> JStr("support"),
                     concerns |-> JList(<< JStr("parking") >>)])) >>

\* The service answers the call in time with one of the further objects
AgentAnswers(j, a, o) ==
  AgentTaskEnds(j, a, OtherAnswers[o])

\* The program with the service free to answer with any of the objects
AnswerNext ==
  \/ Next
  \/ \E j \in JobIds, a \in ArchIdx, o \in 1..Len(OtherAnswers) : AgentAnswers(j, a, o)

AnswerSpec == Init /\ [][AnswerNext]_vars

\* ------------------------------------------- the aggregator on its own
PipelineIdle ==
  /\ _jobs = << >>
  /\ tasks = << >>
  /\ cur = 0
  /\ resp = NoResponse

\* Reactions handed to the aggregator: archetype and foreign agent ids, scores
\* whose means fall on and off the rounding ties
AggReactions ==
  { AgentReaction(id, id, "neutral", sc, <<>>, <<>>, <<>>, <<>>, <<>>) :
      id \in {"student_renter", "nearby_homeowner", "mayor"}, sc \in {0, 40, 51, 100} }

AggAcceptances == {0, 55, 80}

SeqsUpTo(S, n) == UNION { [1..k -> S] : k \in 0..n }

\* Archetype tables the aggregator runs under: the shipped one, and one whose
\* first archetype is configured with weight 2.0
AggWeights == { ShippedWeights, [i \in ArchIdx |-> IF i = 1 THEN 20 ELSE 10] }

AggInit ==
  /\ PipelineIdle
  /\ CacheIdle
  /\ archWeights \in AggWeights
  /\ aggIn \in [reactions : SeqsUpTo(AggReactions, MaxReactions),
                deterministic_acceptance : AggAcceptances]
  /\ aggOut = None
  /\ runIn = [archetype |-> 1, outcome |-> Raised("TimeoutError")]
  /\ runOut = None

\* _aggregate is called on the current reaction list
Aggregate ==
  /\ aggOut' = Some(_aggregate(aggIn.reactions, aggIn.deterministic_acceptance))
  /\ UNCHANGED << aggIn, runIn, runOut, archWeights, cacheVars, pipelineVars >>

\* The caller's list is reordered: two neighbours change places
PermuteReactions(i) ==
  /\ i \in 1..(Len(aggIn.reactions) - 1)
  /\ aggIn' = [aggIn EXCEPT !.reactions =
                 [k \in 1..Len(@) |-> IF k = i THEN @[i + 1]
                                      ELSE IF k = i + 1 THEN @[i] ELSE @[k]]]
  /\ UNCHANGED << aggOut, runIn, runOut, archWeights, cacheVars, pipelineVars >>

AggNext ==
  \/ Aggregate
  \/ \E i \in 1..MaxReactions : PermuteReactions(i)

AggSpec == AggInit /\ [][AggNext]_vars

\* ----------------------------------------- the agent runner on its own
Absent == [t |-> "absent", v |-> 0]

\* The JSON object with the fields of f that are present
MkDict(f) == JDict([k \in {x \in DOMAIN f : f[x].t # "absent"} |-> f[k]])

GoodCitation ==
  JDict([driver |-> JStr("d_to_park_m"), value |-> JInt(120), effect |-> JStr("positive")])

ScoreVals ==
  { Absent, JInt(150), JInt(-5), JInt(80), JFloat(995), JFloat(-5), JStr("85"),
    JStr("high"), JNull }
StanceVals == { Absent, JStr("support"), JStr("SUPPORT"), JStr("Oppose"), JStr("WOW"), JNull }
CitationVals ==
  { Absent, JNull, JInt(3), JStr("abc"), GoodCitation, JList(<< >>),
    JList(<< GoodCitation >>),
    JList(<< JStr("d_to_park_m"), JDict([value |-> JFloat(15)]) >>),
    JList(<< JDict([driver |-> JStr("intensity"), value |-> JNull]), GoodCitation >>) }
AgentIdVals == { Absent, JStr("mayor"), JNull }
TextListVals == { Absent, JStr("noise"), JList(<< JStr("noise"), JInt(7) >>) }

\* What one_shot returns for text that is no JSON
ParseErrorDict ==
  JDict(("_raw" :> JStr("I cannot answer that.")) @@ ("_parse_error" :> JBool(TRUE)))

\* How the awaited call may end: wait_for's timeout, a transport error, a
\* non-success status, text that is no JSON, JSON that is no object, an object
RunnerOutcomes ==
  { Raised(e) : e \in {"TimeoutError", "ConnectError", "RuntimeError"} }
  \cup { Returned(x) : x \in {ParseErrorDict, JNull, JInt(3), JStr("ok"), JList(<< >>)} }
  \cup { Returned(MkDict([score |-> sc, stance |-> st, driver_citations |-> ci,
                          agent_id |-> ai, concerns |-> tl])) :
           sc \in ScoreVals, st \in StanceVals, ci \in CitationVals,
           ai \in AgentIdVals, tl \in TextListVals }

RunnerInit ==
  /\ PipelineIdle
  /\ CacheIdle
  /\ archWeights = ShippedWeights
  /\ aggIn = [reactions |-> <<>>, deterministic_acceptance |-> 0]
  /\ aggOut = None
  /\ runIn \in [archetype : ArchIdx, outcome : RunnerOutcomes]
  /\ runOut = None

\* _run_single_agent is called for the archetype with the service ending as given
RunAgent ==
  /\ runOut = None
  /\ runOut' = Some(_run_single_agent(ARCHETYPES[runIn.archetype].id,
                                      ARCHETYPES[runIn.archetype].display_name,
                                      runIn.outcome))
  /\ UNCHANGED << aggIn, aggOut, runIn, archWeights, cacheVars, pipelineVars >>

RunnerNext == RunAgent

RunnerSpec == RunnerInit /\ [][RunnerNext]_vars

\* ------------------------------------- the assistant cache on its own
\* How `await client.post(url, ...)` of get_or_create_assistant may end: a
\* transport error, a non-success status, or status 200/201 with a body: an
\* object with assistant_id, with id only, with neither, or JSON that is no object
CreateResponses ==
  { Raised("ConnectError"),
    Returned([status_code |-> 500, json |-> JDict([detail |-> JStr("boom")])]),
    Returned([status_code |-> 200, json |-> JDict([assistant_id |-> JStr("asst_A")])]),
    Returned([status_code |-> 201, json |-> JDict([id |-> JStr("asst_B")])]),
    Returned([status_code |-> 200, json |-> JDict([name |-> JStr("Vireon")])]),
    Returned([status_code |-> 200, json |-> JList(<< >>)]) }

\* `if cache_key in _assistant_cache: return _assistant_cache[cache_key]`,
\* else the call goes on to `await client.post(...)` and suspends there
LookupAssistant(c, cache_key) ==
  /\ calls[c].pc = "idle"
  /\ calls' = [calls EXCEPT ![c] =
       IF cache_key \in DOMAIN _assistant_cache
       THEN [pc |-> "done", cache_key |-> cache_key,
             result |-> Some(Returned(_assistant_cache[cache_key]))]
       ELSE [pc |-> "posting", cache_key |-> cache_key, result |-> None]]
  /\ UNCHANGED << _assistant_cache, aggIn, aggOut, runIn, runOut, archWeights, pipelineVars >>

\* data.get("assistant_id") or data.get("id")
AssistantIdOf(data) ==
  IF Truthy(Get(data, "assistant_id", JNull))
  THEN Get(data, "assistant_id", JNull)
  ELSE Get(data, "id", JNull)

\* _assistant_cache[cache_key] = assistant_id
StoreAssistant(cache_key, assistant_id) ==
  (cache_key :> assistant_id) @@ _assistant_cache

\* The post ends and the call runs to its end: the exception of the post
\* propagates; a status other than 200/201 raises RuntimeError; data.get on
\* JSON that is no object raises AttributeError; else the id is cached and returned.
CreateAssistantEnds(c, response) ==
  /\ calls[c].pc = "posting"
  /\ LET key == calls[c].cache_key
         ends(result) == [calls EXCEPT ![c] = [pc |-> "done", cache_key |-> key,
                                               result |-> Some(result)]]
     IN IF response.kind = "raise"
        THEN calls' = ends(response) /\ UNCHANGED _assistant_cache
        ELSE IF response.val.status_code \notin {200, 201}
        THEN calls' = ends(Raised("RuntimeError")) /\ UNCHANGED _assistant_cache
        ELSE IF response.val.json.t # "dict"
        THEN calls' = ends(Raised("AttributeError")) /\ UNCHANGED _assistant_cache
        ELSE /\ _assistant_cache' = StoreAssistant(key, AssistantIdOf(response.val.json.v))
             /\ calls' = ends(Returned(AssistantIdOf(response.val.json.v)))
  /\ UNCHANGED << aggIn, aggOut, runIn, runOut, archWeights, pipelineVars >>

\* wait_for's timeout cancels the agent call while it is suspended in the post:
\* CancelledError is raised at the await
CreateAssistantCancelled(c) ==
  /\ calls[c].pc = "posting"
  /\ calls' = [calls EXCEPT ![c] = [pc |-> "done", cache_key |-> calls[c].cache_key,
                                    result |-> Some(Raised("CancelledError"))]]
  /\ UNCHANGED << _assistant_cache, aggIn, aggOut, runIn, runOut, archWeights, pipelineVars >>

CacheInit ==
  /\ PipelineIdle
  /\ archWeights = ShippedWeights
  /\ aggIn = [reactions |-> <<>>, deterministic_acceptance |-> 0]
  /\ aggOut = None
  /\ runIn = [archetype |-> 1, outcome |-> Raised("TimeoutError")]
  /\ runOut = None
  /\ CacheIdle

\* Calls for the archetypes' cache keys, from any of the jobs, in any interleaving
CacheNext ==
  \/ \E c \in 1..MaxCalls, a \in ArchIdx : LookupAssistant(c, ARCHETYPES[a].id)
  \/ \E c \in 1..MaxCalls, r \in CreateResponses : CreateAssistantEnds(c, r)
  \/ \E c \in 1..MaxCalls : CreateAssistantCancelled(c)

CacheSpec == CacheInit /\ [][CacheNext]_vars

\* =================================================================
\* Properties
\* =================================================================

\* C1: a job's status only moves queued -> running -> complete or
\* queued -> running -> error: a job enters the store queued, queued is left
\* only to running, running only to complete or error, and a status of complete
\* or error never changes again.
C1_StatusForwardOnly ==
  [][/\ \A j \in DOMAIN _jobs' \ DOMAIN _jobs : _jobs'[j].status = "queued"
     /\ \A j \in DOMAIN _jobs :
          /\ j \in DOMAIN _jobs'
          /\ _jobs[j].status = "queued" => _jobs'[j].status \in {"queued", "running"}
          /\ _jobs[j].status = "running" => _jobs'[j].status \in {"running", "complete", "error"}
          /\ _jobs[j].status \in Terminal => _jobs'[j].status = _jobs[j].status]_vars

\* Both terminal statuses are reached, and the orchestrators have returned.
C1_Witness ==
  \E j, k \in DOMAIN _jobs :
    /\ _jobs[j].status = "complete" /\ tasks[j].pc = "done"
    /\ _jobs[k].status = "error" /\ tasks[k].pc = "done"

\* C2: at every step of run_simulation, the error transition included, a job's
\* progress and agents_done are at least what they were before the step.
C2_ProgressMonotone ==
  [][\A j \in DOMAIN _jobs :
       /\ _jobs'[j].progress >= _jobs[j].progress
       /\ _jobs'[j].agents_done >= _jobs[j].agents_done]_vars

\* A job failed after its agents were collected and kept its progress and count.
C2_Witness ==
  \E j \in DOMAIN _jobs :
    /\ _jobs[j].status = "error"
    /\ _jobs[j].progress = 92
    /\ _jobs[j].agents_done = Len(ARCHETYPES)

\* C3: every started job eventually reaches a terminal status, whatever the
\* agents do: under the fairness of the event loop and of the per-agent timeout,
\* a job in the store leads to that job being complete or in error.
C3_JobTerminates ==
  \A j \in JobIds :
    (j \in DOMAIN _jobs) ~> (j \in DOMAIN _jobs /\ _jobs[j].status \in Terminal)

\* A job whose agents all ran into the timeout is complete.
C3_Witness ==
  \E j \in DOMAIN _jobs :
    /\ _jobs[j].status = "complete"
    /\ \A i \in 1..Len(_jobs[j].result[1].agents) :
         _jobs[j].result[1].agents[i].concerns = << FailureConcern("TimeoutError") >>

\* C4: for every failure class of one agent invocation (the awaited call raises:
\* timeout, transport or remote error; the response is flagged unparsable, is no
\* JSON object, or makes the parser raise), _run_single_agent raises nothing and
\* returns one reaction for the invoking archetype with stance neutral, score 50,
\* exactly one concern, exactly one rationale line and the three other lists
\* empty; it raises nothing on any other outcome either.
C4_FailureYieldsFallback ==
  runOut # None =>
    LET arch == ARCHETYPES[runIn.archetype]
        o == runIn.outcome
        failed == \/ o.kind = "raise"
                  \/ o.val.t # "dict"
                  \/ Truthy(Get(o.val.v, "_parse_error", JNull))
                  \/ _parse_reaction(arch.id, arch.display_name, o.val).kind = "raise"
        out == runOut[1]
    IN /\ out.kind = "return"
       /\ failed =>
            /\ out.val.agent_id = arch.id
            /\ out.val.display_name = arch.display_name
            /\ out.val.stance = "neutral"
            /\ out.val.score = 50
            /\ Len(out.val.concerns) = 1
            /\ Len(out.val.why) = 1
            /\ out.val.would_change_mind_if = <<>>
            /\ out.val.proposed_amendments = <<>>
            /\ out.val.driver_citations = <<>>

\* The service answered with an object whose driver_citations is null, the
\* parser raised on it and the runner returned the fallback reaction.
C4_Witness ==
  /\ runOut # None
  /\ runIn.outcome.kind = "return"
  /\ runIn.outcome.val.t = "dict"
  /\ Get(runIn.outcome.val.v, "driver_citations", JList(<<>>)) = JNull
  /\ Get(runIn.outcome.val.v, "score", JNull) = JInt(80)
  /\ runOut[1] = Returned(FailureReaction(ARCHETYPES[runIn.archetype].id,
                                          ARCHETYPES[runIn.archetype].display_name,
                                          "TypeError"))

\* C5: a per-agent failure is never surfaced as a job failure: every finished
\* agent task holds a reaction, never an exception; the exception a job's except
\* clause handles and the error a job records come from the orchestrator's own
\* code, never from an agent; and a job whose orchestrator returned without such
\* a fault is complete with agents_done = agents_total, however many agents failed.
C5_AgentFailureNotJobFailure ==
  \A j \in DOMAIN _jobs :
    /\ \A i \in 1..Len(tasks[j].completed) : tasks[j].completed[i].kind = "return"
    /\ tasks[j].exc # None => tasks[j].exc[1] \in ExceptionTexts
    /\ _jobs[j].error # None => _jobs[j].error[1] \in ExceptionTexts
    /\ (tasks[j].pc = "done" /\ _jobs[j].error = None) =>
         /\ _jobs[j].status = "complete"
         /\ _jobs[j].agents_done = _jobs[j].agents_total
         /\ Len(_jobs[j].result[1].agents) = _jobs[j].agents_total

\* Every agent of a job failed, one by timeout and one with an unparsable
\* answer, and the job is complete.
C5_Witness ==
  \E j \in DOMAIN _jobs :
    /\ _jobs[j].status = "complete" /\ tasks[j].pc = "done"
    /\ _jobs[j].agents_done = _jobs[j].agents_total
    /\ \A i \in 1..Len(_jobs[j].result[1].agents) :
         /\ _jobs[j].result[1].agents[i].stance = "neutral"
         /\ _jobs[j].result[1].agents[i].score = 50
    /\ \E i, k \in 1..Len(_jobs[j].result[1].agents) :
         /\ _jobs[j].result[1].agents[i].concerns = << FailureConcern("TimeoutError") >>
         /\ _jobs[j].result[1].agents[k].concerns = << "Agent response could not be parsed." >>

\* C6: in every state a poll can observe (the loop is free), a job whose status
\* is complete has progress 100, phase complete and a result; a status poll
\* that answered complete answered progress 100 and phase complete, for a job
\* that holds its result.
C6_CompleteIsConsistent ==
  /\ LoopIdle =>
       \A j \in DOMAIN _jobs :
         _jobs[j].status = "complete" =>
           /\ _jobs[j].progress = 100
           /\ _jobs[j].phase = "complete"
           /\ _jobs[j].result # None
  /\ (resp.op = "status" /\ resp.code = 200) =>
       (resp.body[1].status = "complete" =>
          /\ resp.body[1].progress = 100
          /\ resp.body[1].phase = "complete"
          /\ _jobs[resp.id].result # None)

\* A status poll answered complete, with progress 100, for a job that another
\* job in the store has not caught up with.
C6_Witness ==
  /\ resp.op = "status" /\ resp.code = 200
  /\ resp.body[1].status = "complete"
  /\ resp.body[1].progress = 100
  /\ \E k \in DOMAIN _jobs : _jobs[k].status = "running"

\* C7: in every reachable state every job's agents_total is the number of
\* configured archetypes and 0 <= agents_done <= agents_total.
C7_AgentCounts ==
  \A j \in DOMAIN _jobs :
    /\ _jobs[j].agents_total = Len(ARCHETYPES)
    /\ 0 <= _jobs[j].agents_done
    /\ _jobs[j].agents_done <= _jobs[j].agents_total

\* One job has counted all its agents while another has counted none.
C7_Witness ==
  \E j, k \in DOMAIN _jobs :
    /\ _jobs[j].agents_done = Len(ARCHETYPES)
    /\ _jobs[k].agents_done = 0 /\ _jobs[k].status = "running"

C9_RejectedBeforeCreation ==
  [][/\ (resp'.op = "simulate" /\ resp'.code = 400) =>
          /\ (\A i \in 1..Len(ALLOWED_MODELS) : ALLOWED_MODELS[i] # resp'.body[1])
          /\ _jobs' = _jobs
          /\ tasks' = tasks
     /\ DOMAIN _jobs' # DOMAIN _jobs =>
          /\ resp'.op = "simulate" /\ resp'.code = 200
          /\ DOMAIN _jobs' = DOMAIN _jobs \cup {resp'.id}
          /\ DOMAIN tasks' = DOMAIN _jobs'
     /\ \A j \in DOMAIN _jobs' :
          \E i \in 1..Len(ALLOWED_MODELS) : ALLOWED_MODELS[i] = _jobs'[j].model_id]_vars

\* A request was rejected while the store held a job and had room for another.
C9_Witness ==
  /\ resp.op = "simulate" /\ resp.code = 400
  /\ Cardinality(DOMAIN _jobs) = 1
  /\ \E j \in DOMAIN _jobs : _jobs[j].status = "running"

\* C10: aggregation is order-independent: the sentiment_score and final_score
\* that _aggregate returned for a reaction list are those it returns for every
\* reordering of that list with the same deterministic acceptance score.
C10_OrderIndependent ==
  aggOut # None =>
    LET again == _aggregate(aggIn.reactions, aggIn.deterministic_acceptance)
    IN /\ aggOut[1].sentiment_score = again.sentiment_score
       /\ aggOut[1].final_score = again.final_score

\* The list was reordered after the call: the notes of the call name another
\* reaction than the notes for the present order do, three reactions in the list.
C10_Witness ==
  /\ aggOut # None
  /\ Len(aggIn.reactions) = MaxReactions
  /\ aggOut[1].notes #
       _aggregate(aggIn.reactions, aggIn.deterministic_acceptance).notes

\* C11: for a non-empty reaction list, final_score is
\* ALPHA x deterministic_acceptance + (1 - ALPHA) x sentiment_score rounded to
\* one decimal place, ALPHA = 0.7: ten times the final score (in tenths) lies
\* within half a tenth of the exact blend 70 d + 3 s (in hundredths, s in
\* tenths); deterministic_acceptance 80 and sentiment_score 40 give 68.0.
C11_BlendRounded ==
  (aggOut # None /\ aggIn.reactions # <<>>) =>
    LET d == aggIn.deterministic_acceptance
        s == aggOut[1].sentiment_score
        exact == 70 * d + 3 * s
    IN /\ 10 * aggOut[1].final_score - exact \in -5..5
       /\ (d = 80 /\ s = 400) => aggOut[1].final_score = 680

\* The aggregator was called with acceptance 80 on reactions whose mean is 40.0
\* and returned 68.0.
C11_Witness ==
  /\ aggOut # None
  /\ aggIn.deterministic_acceptance = 80
  /\ Len(aggIn.reactions) = 2
  /\ aggOut[1].sentiment_score = 400
  /\ aggOut[1].final_score = 680

\* The sum f[1] + ... + f[n]
RECURSIVE SumOver(_, _)
SumOver(f, n) == IF n = 0 THEN 0 ELSE f[n] + SumOver(f, n - 1)

\* C12: for a non-empty reaction list, sentiment_score is the sum of
\* score x weight divided by the sum of the weights, rounded to one decimal
\* place (it lies within 0.05 of the quotient), the weight of a reaction being
\* the configured weight of the archetype whose id it carries (1.0 when it
\* carries no archetype's id); scores 100 and 0 with weights 2 and 1 give 66.7.
C12_WeightedMean ==
  (aggOut # None /\ aggIn.reactions # <<>>) =>
    LET rs == aggIn.reactions
        w == [i \in 1..Len(rs) |->
                IF \E k \in ArchIdx : ARCHETYPES[k].id = rs[i].agent_id
                THEN archWeights[CHOOSE k \in ArchIdx : ARCHETYPES[k].id = rs[i].agent_id]
                ELSE 10]
        num == SumOver([i \in 1..Len(rs) |-> rs[i].score * w[i]], Len(rs))
        den == SumOver(w, Len(rs))
        s == aggOut[1].sentiment_score
    IN /\ 2 * (s * den - 10 * num) \in (-den)..den
       /\ (Len(rs) = 2 /\ rs[1].score = 100 /\ rs[2].score = 0 /\ w = << 20, 10 >>)
            => s = 667

\* The aggregator ran on a reaction of score 100 from an archetype configured
\* with weight 2 and one of score 0 from an archetype of weight 1: 66.7.
C12_Witness ==
  /\ aggOut # None
  /\ archWeights[1] = 20 /\ archWeights[2] = 10
  /\ Len(aggIn.reactions) = 2
  /\ aggIn.reactions[1].agent_id = ARCHETYPES[1].id /\ aggIn.reactions[1].score = 100
  /\ aggIn.reactions[2].agent_id = ARCHETYPES[2].id /\ aggIn.reactions[2].score = 0
  /\ aggOut[1].sentiment_score = 667

\* C13: for an empty reaction list and any deterministic acceptance score d,
\* _aggregate returns sentiment_score 50 and final_score d itself, with one
\* explanatory note; d = 55 gives sentiment_score 50 and final_score 55.
C13_EmptyList ==
  (aggOut # None /\ aggIn.reactions = <<>>) =>
    /\ aggOut[1].sentiment_score = 500
    /\ aggOut[1].final_score = 10 * aggIn.deterministic_acceptance
    /\ aggOut[1].notes = << << "No agent reactions available." >> >>
    /\ aggIn.deterministic_acceptance = 55 => aggOut[1].final_score = 550

\* The aggregator was called on the empty list with acceptance 55.
C13_Witness ==
  /\ aggOut # None
  /\ aggIn.reactions = <<>>
  /\ aggIn.deterministic_acceptance = 55
  /\ aggOut[1].sentiment_score = 500
  /\ aggOut[1].final_score = 550

C15_SlowAgentDoesNotBlock ==
  <>[](\A j \in JobIds :
         \/ j \notin DOMAIN _jobs
         \/ \A a \in ArchIdx : tasks[j].agents[a] # "pending"
         \/ /\ LoopIdle
            /\ LET k == Cardinality({a \in ArchIdx : tasks[j].agents[a] = "finished"})
               IN /\ k < _jobs[j].agents_total
                  /\ _jobs[j].agents_done = k
                  /\ _jobs[j].progress = 20 + (70 * k) \div _jobs[j].agents_total
                  /\ _jobs[j].message =
                       IF k = 0 THEN << "Generating stakeholder reactions..." >>
                       ELSE << "Agent ", k, "/", _jobs[j].agents_total, " complete..." >>)

\* A poll can see one agent counted, with progress and message, while another
\* agent of the job is still pending.
C15_Witness ==
  \E j \in DOMAIN _jobs :
    /\ LoopIdle
    /\ \E a \in ArchIdx : tasks[j].agents[a] = "pending"
    /\ _jobs[j].agents_done = 1
    /\ _jobs[j].progress = 20 + 70 \div Len(ARCHETYPES)
    /\ _jobs[j].message = << "Agent ", 1, "/", Len(ARCHETYPES), " complete..." >>

\* C16 as stated: in every reachable state, result present implies
\* status = complete, error present implies status = error, and result and
\* error are never both present.
C16_Original ==
  \A j \in DOMAIN _jobs :
    /\ _jobs[j].result # None => _jobs[j].status = "complete"
    /\ _jobs[j].error # None => _jobs[j].status = "error"
    /\ ~(_jobs[j].result # None /\ _jobs[j].error # None)

\* C16, amended: result and error are each written once; in every reachable
\* state error present implies status = error and result and error are never
\* both present; result present implies status = complete in every state a poll
\* can observe (the loop is free), the only other state with a result being the
\* one between `job.result = ...` and `job.status = "complete"`, where the
\* orchestrator holds the loop and the status is still running.
C16_ResultAndErrorOnce ==
  /\ [](\A j \in DOMAIN _jobs :
          /\ _jobs[j].error # None => _jobs[j].status = "error"
          /\ ~(_jobs[j].result # None /\ _jobs[j].error # None)
          /\ _jobs[j].result # None =>
               \/ _jobs[j].status = "complete"
               \/ _jobs[j].status = "running" /\ tasks[j].pc = "L300" /\ cur = j
          /\ (LoopIdle /\ _jobs[j].result # None) => _jobs[j].status = "complete")
  /\ [][\A j \in DOMAIN _jobs :
          /\ _jobs[j].result # None => _jobs'[j].result = _jobs[j].result
          /\ _jobs[j].error # None => _jobs'[j].error = _jobs[j].error]_vars

\* The result of a job is assembled and its status is not yet complete, while
\* another job holds an error and no result.
C16_Witness ==
  \E j, k \in DOMAIN _jobs :
    /\ _jobs[j].result # None /\ _jobs[j].status = "running"
    /\ _jobs[k].error # None /\ _jobs[k].status = "error" /\ _jobs[k].result = None

\* C17: when an exception escapes the orchestrator's driving sequence, the job
\* goes directly to status error (the raise itself writes no job field and the
\* first write of the except clause is status = error), the exception's
\* description is stored in error and in message, the except clause leaves
\* progress, phase, agents_done, agents_total, result and the inputs as they
\* were, and no field of the job changes once the clause has run.
C17_ErrorTransitionFrame ==
  [][\A j \in DOMAIN _jobs :
       /\ (tasks'[j].pc = "L307" /\ tasks[j].pc # "L307") =>
            /\ _jobs'[j] = _jobs[j]
            /\ tasks'[j].exc # None
       /\ tasks[j].pc \in {"L307", "L308", "L309"} =>
            /\ _jobs'[j].progress = _jobs[j].progress
            /\ _jobs'[j].phase = _jobs[j].phase
            /\ _jobs'[j].agents_done = _jobs[j].agents_done
            /\ _jobs'[j].agents_total = _jobs[j].agents_total
            /\ _jobs'[j].result = _jobs[j].result
            /\ _jobs'[j].id = _jobs[j].id
            /\ _jobs'[j].model_id = _jobs[j].model_id
            /\ _jobs'[j].building = _jobs[j].building
            /\ _jobs'[j].impacts = _jobs[j].impacts
       /\ (tasks[j].pc = "L307" /\ _jobs'[j] # _jobs[j]) => _jobs'[j].status = "error"
       /\ (tasks[j].pc \in {"L307", "L308"} /\ tasks'[j].pc # tasks[j].pc) =>
            tasks'[j].exc = tasks[j].exc
       /\ (tasks[j].pc = "L309" /\ tasks'[j].pc = "done") =>
            /\ _jobs'[j].status = "error"
            /\ _jobs'[j].error = tasks[j].exc
            /\ _jobs'[j].message = << "Error: ", tasks[j].exc[1] >>
       /\ (tasks[j].pc = "done" /\ _jobs[j].status = "error") => _jobs'[j] = _jobs[j]]_vars

\* A fault in the aggregation: the job is in error with the description in
\* error and in message, progress 92 and phase aggregate as they were, no result.
C17_Witness ==
  \E j \in DOMAIN _jobs :
    /\ tasks[j].pc = "done"
    /\ _jobs[j].status = "error"
    /\ _jobs[j].error = Some("division by zero")
    /\ _jobs[j].message = << "Error: ", "division by zero" >>
    /\ _jobs[j].progress = 92 /\ _jobs[j].phase = "aggregate"
    /\ _jobs[j].agents_done = _jobs[j].agents_total
    /\ _jobs[j].result = None

\* C18: for every response that parses as an object, the reaction has an
\* integer score in [0,100] equal to the returned score truncated to an integer
\* and clamped (50 when the score is missing), and a stance that is the
\* lower-cased returned stance when that is one of support, neutral, oppose and
\* neutral otherwise.
C18_ScoreAndStanceNormalised ==
  (/\ runOut # None
   /\ runIn.outcome.kind = "return"
   /\ runIn.outcome.val.t = "dict"
   /\ ~Truthy(Get(runIn.outcome.val.v, "_parse_error", JNull))) =>
    LET raw == runIn.outcome.val.v
        sc == Get(raw, "score", JInt(50))
        st == Get(raw, "stance", JStr("neutral"))
        trunc == IF sc.t = "int" THEN sc.v
                 ELSE IF sc.v >= 0 THEN sc.v \div 10 ELSE -((-sc.v) \div 10)
        r == runOut[1]
    IN /\ r.kind = "return"
       /\ r.val.score \in 0..100
       /\ sc.t \in {"int", "float"} =>
            r.val.score = (IF trunc > 100 THEN 100 ELSE IF trunc < 0 THEN 0 ELSE trunc)
       /\ r.val.stance = IF st.t = "str" /\ Lower(st.v) \in AllowedStances
                         THEN Lower(st.v) ELSE "neutral"

\* C19: the assistant cache never holds a malformed entry: under any
\* interleaving of calls and any remote response, every cached value is a
\* well-formed handle (a non-empty string), one that a response of a successful
\* creation carried; a failed or id-less creation leaves the cache unchanged.
C19_CacheWellFormed ==
  \A k \in DOMAIN _assistant_cache :
    /\ _assistant_cache[k].t = "str"
    /\ _assistant_cache[k].v # ""
    /\ \E r \in CreateResponses :
         /\ r.kind = "return" /\ r.val.status_code \in {200, 201}
         /\ r.val.json.t = "dict"
         /\ _assistant_cache[k] \in { Get(r.val.json.v, "assistant_id", JNull),
                                      Get(r.val.json.v, "id", JNull) }

C21_OneReactionPerArchetype ==
  \A j \in DOMAIN _jobs :
    _jobs[j].status = "complete" =>
      LET agents == _jobs[j].result[1].agents
      IN /\ Len(agents) = _jobs[j].agents_total
         /\ \A a \in ArchIdx :
              Cardinality({ i \in 1..Len(agents) :
                            agents[i].agent_id = ARCHETYPES[a].id }) = 1

\* C22: malformed citation data never fails the whole reaction: for a response
\* that parses as an object (its score a number or absent, its agent_id a string
\* or absent), a driver_citations value that is not list-shaped or a malformed
\* entry only drops citations; the reaction returned is the one normalised from
\* the response's score, stance and text lists, not the fallback reaction, and
\* an entry missing driver or effect gets driver "" and effect neutral.
C22_CitationsNeverFailReaction ==
  (/\ runOut # None
   /\ runIn.outcome.kind = "return"
   /\ runIn.outcome.val.t = "dict"
   /\ ~Truthy(Get(runIn.outcome.val.v, "_parse_error", JNull))
   /\ Get(runIn.outcome.val.v, "score", JInt(50)).t \in {"int", "float"}
   /\ Get(runIn.outcome.val.v, "agent_id", JStr("")).t = "str") =>
    LET raw == runIn.outcome.val.v
        ci == Get(raw, "driver_citations", JList(<< >>))
        r == runOut[1]
    IN /\ r.kind = "return"
       /\ r.val.stance = NormaliseStance(raw)
       /\ r.val.score = ClampScore(PyInt(Get(raw, "score", JInt(50))).val)
       /\ r.val.concerns = _str_list(Get(raw, "concerns", JNull))
       /\ r.val.why # << "Could not generate a reaction in time." >>
       /\ Len(r.val.driver_citations) <= (IF ci.t = "list" THEN Len(ci.v) ELSE 0)
       /\ \A i \in 1..Len(r.val.driver_citations) :
            \E k \in 1..Len(ci.v) :
              /\ ci.v[k].t = "dict"
              /\ r.val.driver_citations[i].driver =
                   (IF "driver" \in DOMAIN ci.v[k].v THEN PyStr(ci.v[k].v.driver) ELSE "")
              /\ r.val.driver_citations[i].effect =
                   (IF "effect" \in DOMAIN ci.v[k].v THEN PyStr(ci.v[k].v.effect) ELSE "neutral")

\* C23: in every reaction recorded by any job, driver_citations is empty only
\* if the reaction is a fallback reaction (stance neutral, score 50, a concern
\* stating the failure); a reaction normalised from a successfully parsed
\* response has at least one citation.
C23_EmptyCitationsOnlyInFallback ==
  \A j \in DOMAIN _jobs :
    \A i \in 1..Len(tasks[j].reactions) :
      LET r == tasks[j].reactions[i]
      IN r.driver_citations = << >> =>
           /\ r.stance = "neutral"
           /\ r.score = 50
           /\ \/ r.concerns = << "Agent response could not be parsed." >>
              \/ \E e \in {"TimeoutError", "RuntimeError", "ConnectError", "AttributeError",
                           "TypeError", "ValueError", "ValidationError"} :
                   r.concerns = << FailureConcern(e) >>

\* The reactions of job j's agents that have finished, in the order they will
\* have in the list: those collected, then those queued for collection
FinishedReactions(j) ==
  tasks[j].reactions \o [i \in 1..Len(tasks[j].completed) |-> tasks[j].completed[i].val]

\* C24: the job's reaction list is in completion order: when an agent's
\* invocation finishes, its reaction takes the place after the reactions of all
\* agents that finished before it, whatever its place in the archetype list;
\* the reactions already placed keep their places; and the result's list is the
\* list so built.
C24_CompletionOrder ==
  [][ \A j \in DOMAIN _jobs :
        LET before == FinishedReactions(j)
            after == [i \in 1..(Len(tasks'[j].reactions) + Len(tasks'[j].completed)) |->
                        IF i <= Len(tasks'[j].reactions) THEN tasks'[j].reactions[i]
                        ELSE tasks'[j].completed[i - Len(tasks'[j].reactions)].val]
        IN /\ tasks'[j].pc \notin {"done", "L307", "L308", "L309"} =>
                /\ Len(after) >= Len(before)
                /\ SubSeq(after, 1, Len(before)) = before
           /\ \A a \in ArchIdx :
                (tasks[j].agents[a] = "pending" /\ tasks'[j].agents[a] = "finished") =>
                   /\ Len(after) = Len(before) + 1
                   /\ after[Len(after)].agent_id = ARCHETYPES[a].id
           /\ (_jobs[j].result = None /\ _jobs'[j].result # None) =>
                /\ tasks[j].completed = << >>
                /\ _jobs'[j].result[1].agents = before
    ]_vars

\* Both orders of the two archetypes are result orders: the first job completed
\* with its reactions in the order of the archetype list, the second with the
\* last archetype's reaction first
C24_Witness ==
  /\ DOMAIN _jobs = {1, 2}
  /\ _jobs[1].status = "complete" /\ _jobs[2].status = "complete"
  /\ \A i \in ArchIdx :
       /\ _jobs[1].result[1].agents[i].agent_id = ARCHETYPES[i].id
       /\ _jobs[2].result[1].agents[i].agent_id = ARCHETYPES[Len(ARCHETYPES) + 1 - i].id

\* C25: the aggregation step runs at most once per job and only after all
\* expected reactions are collected: a job is in phase aggregate or complete, or
\* has status complete, only with agents_done = agents_total; the aggregator is
\* called only in phase aggregate of a running job that has no aggregate and no
\* result yet, and the list passed to it has exactly agents_total reactions.
C25_AggregateOnceAfterAll ==
  /\ [](\A j \in DOMAIN _jobs :
          (_jobs[j].phase \in {"aggregate", "complete"} \/ _jobs[j].status = "complete") =>
             _jobs[j].agents_done = _jobs[j].agents_total)
  /\ [][ \A j \in DOMAIN _jobs :
           /\ (_jobs'[j].phase = "aggregate" /\ _jobs[j].phase # "aggregate") =>
                /\ _jobs[j].phase = "agents"
                /\ Len(tasks[j].reactions) = _jobs[j].agents_total
                /\ \A a \in ArchIdx : tasks[j].agents[a] = "finished"
           /\ (tasks'[j].aggregate # None /\ tasks'[j].aggregate # tasks[j].aggregate) =>
                /\ tasks[j].aggregate = None
                /\ _jobs[j].status = "running" /\ _jobs[j].phase = "aggregate"
                /\ _jobs[j].result = None
                /\ Len(tasks[j].reactions) = _jobs[j].agents_total
                /\ tasks[j].completed = << >>
                /\ tasks'[j].aggregate =
                     Some(_aggregate(tasks[j].reactions,
                                     _jobs[j].impacts.deterministic_acceptance))
           /\ (_jobs'[j].result # _jobs[j].result) =>
                /\ _jobs[j].result = None
                /\ tasks[j].aggregate # None
                /\ _jobs'[j].result[1].aggregate = tasks[j].aggregate[1]
       ]_vars

\* The aggregator has just been called for a job, with one reaction per archetype
C25_Witness ==
  \E j \in DOMAIN _jobs :
    /\ tasks[j].pc = "L289" /\ tasks[j].aggregate # None
    /\ _jobs[j].phase = "aggregate" /\ _jobs[j].status = "running"
    /\ Len(tasks[j].reactions) = Len(ARCHETYPES)
    /\ _jobs[j].agents_done = _jobs[j].agents_total

\* C26: in every state a poll can observe (no orchestrator in the middle of a
\* block), a job that is not in error has phase and progress in agreement:
\* status queued has phase "" and progress 0; phase impacts has progress 15;
\* phase agents has progress in 20..90; phase aggregate has progress 92; phase
\* complete has progress 100 and status complete.  The phase only advances in
\* the order "", impacts, agents, aggregate, complete, and a job in error keeps
\* the phase and progress it had when it failed (the aggregate phase, which runs
\* without suspension, is observed only on a job that failed in it, at 92).
C26_PhaseProgressAgree ==
  /\ [](LoopIdle =>
          \A j \in DOMAIN _jobs :
            _jobs[j].status # "error" =>
              /\ _jobs[j].status = "queued" => _jobs[j].phase = "" /\ _jobs[j].progress = 0
              /\ _jobs[j].phase = "impacts" => _jobs[j].progress = 15
              /\ _jobs[j].phase = "agents" => _jobs[j].progress \in 20..90
              /\ _jobs[j].phase = "aggregate" => _jobs[j].progress = 92
              /\ _jobs[j].phase = "complete" =>
                   _jobs[j].progress = 100 /\ _jobs[j].status = "complete"
              /\ _jobs[j].phase \in {"", "impacts", "agents", "aggregate", "complete"})
  /\ [](LoopIdle =>
          \A j \in DOMAIN _jobs :
            _jobs[j].status = "error" =>
              /\ _jobs[j].phase = "agents" => _jobs[j].progress \in 20..90
              /\ _jobs[j].phase = "aggregate" => _jobs[j].progress = 92
              /\ _jobs[j].phase # "complete")
  /\ [][ \A j \in DOMAIN _jobs :
           /\ _jobs'[j].phase # _jobs[j].phase =>
                << _jobs[j].phase, _jobs'[j].phase >> \in
                  { << "", "impacts" >>, << "impacts", "agents" >>,
                    << "agents", "aggregate" >>, << "aggregate", "complete" >> }
           /\ (_jobs[j].status = "error" \/ _jobs'[j].status = "error") =>
                /\ _jobs'[j].phase = _jobs[j].phase
                /\ _jobs'[j].progress = _jobs[j].progress
       ]_vars

\* A poll can observe one job complete at 100 and another in the agents phase
\* with one of its two agents done, strictly between 20 and 90
C26_Witness ==
  /\ LoopIdle
  /\ \E j, k \in DOMAIN _jobs :
       /\ _jobs[j].phase = "complete" /\ _jobs[j].progress = 100
       /\ _jobs[k].phase = "agents" /\ _jobs[k].status = "running"
       /\ _jobs[k].progress > 20 /\ _jobs[k].progress < 90

\* C27: once the assistant cache holds a handle for an archetype, that entry
\* is never removed and never replaced by a different handle, under any
\* interleaving of calls for the same archetype; a call that finds the
\* archetype cached returns the cached handle without any remote creation.
C27_CacheEntryStable ==
  [][ /\ \A k \in DOMAIN _assistant_cache :
           (_assistant_cache[k].t = "str" /\ _assistant_cache[k].v # "") =>
              /\ k \in DOMAIN _assistant_cache'
              /\ _assistant_cache'[k] = _assistant_cache[k]
      /\ \A c \in 1..MaxCalls :
           (calls[c].pc = "idle" /\ calls'[c].pc # "idle"
              /\ calls'[c].cache_key \in DOMAIN _assistant_cache) =>
              /\ calls'[c].pc = "done"
              /\ calls'[c].result = Some(Returned(_assistant_cache[calls'[c].cache_key]))
              /\ _assistant_cache' = _assistant_cache
    ]_vars

====
